---- MODULE Spec2Model ----
(***************************************************************************)
(* Model of the speclint / refine-backlog-cli command line client.        *)
(*                                                                         *)
(* Strings are sequences of one-character strings, so that slice, trim,   *)
(* split and join are computed as the code computes them.                 *)
(***************************************************************************)
EXTENDS Integers, Sequences, FiniteSets, TLC

VARIABLES
    pc,              \* position of the process
    args,            \* process.argv.slice(2)
    isTTY,           \* process.stdin.isTTY
    stdin,           \* the lines readline delivers from standard input
    itemFile,        \* the directory entry at the --file path
    envToken,        \* process.env.GITHUB_TOKEN
    envKey,          \* the license-key variable of the environment
                     \* (SPECLINT_KEY, REFINE_BACKLOG_KEY)
    items, format, context, licenseKey, useUserStories, useGherkin,
    filePath, noAutoContext, contextExplicitlyProvided,
    stdinPos,        \* number of lines of stdin consumed by readStdin
    lines,           \* readStdin's accumulator
    issueNumber, repo, minScore, githubToken, issue, lintResult,
    srcIdx, collected, usedSources, totalChars, detected,
    dirEntry,        \* the directory entry read by the latest visit of the loop
    refined,         \* main's result: the parsed response handed to the printer
    requests,        \* the network requests sent so far, oldest first
    response,        \* the last response received (status, data)
    stdout, stderr,  \* what console.log / console.error have written
    exitCode         \* the process exit status, NoExit while running

envVars    == <<args, isTTY, stdin, itemFile, envToken, envKey>>
refineVars == <<items, format, context, licenseKey, useUserStories, useGherkin,
                filePath, noAutoContext, contextExplicitlyProvided, stdinPos, lines>>
enforceVars == <<issueNumber, repo, minScore, githubToken, issue, lintResult>>
detectVars == <<srcIdx, collected, usedSources, totalChars, detected, dirEntry>>
printVars  == <<refined>>
ioVars     == <<requests, response, stdout, stderr, exitCode>>
vars == <<pc, envVars, refineVars, enforceVars, detectVars, printVars, ioVars>>

-----------------------------------------------------------------------------
(* Bounds of the model *)

\* longest argument vector after the subcommand
MaxArgs == 3
\* length of a context file that is longer than its extractor's slice
LongLen == 350
\* length of an over-long package.json description
LongDescLen == 800
\* length of a malformed response body longer than the error excerpt
LongBodyLen == 250
\* longest list of refined items handed to the formatter on its own
MaxItems == 2

-----------------------------------------------------------------------------
(* Strings *)

undefined == <<"undefined">>
NoExit == 0 - 1

Rep(c, n) == [k \in 1..n |-> c]

Whitespace == {" ", "\t", "\r", "\n"}

\* JavaScript truthiness of a string-or-undefined value
Truthy(s) == s # undefined /\ s # <<>>

\* s.slice(0, n), n >= 0
Slice(s, n) == SubSeq(s, 1, IF Len(s) < n THEN Len(s) ELSE n)

RECURSIVE TrimStart(_)
TrimStart(s) ==
    IF s # <<>> /\ Head(s) \in Whitespace THEN TrimStart(Tail(s)) ELSE s

RECURSIVE TrimEnd(_)
TrimEnd(s) ==
    IF s # <<>> /\ s[Len(s)] \in Whitespace
    THEN TrimEnd(SubSeq(s, 1, Len(s) - 1)) ELSE s

\* String.prototype.trim
Trim(s) == TrimEnd(TrimStart(s))

\* s.startsWith('-')
StartsWithDash(s) == s # <<>> /\ Head(s) = "-"

\* Array.prototype.join
RECURSIVE Join(_, _)
Join(ss, sep) ==
    IF ss = <<>> THEN <<>>
    ELSE IF Len(ss) = 1 THEN ss[1]
    ELSE ss[1] \o sep \o Join(Tail(ss), sep)

\* s.split('\n'): the pieces between newlines, empty pieces included
RECURSIVE SplitLines(_, _)
SplitLines(s, cur) ==
    IF s = <<>> THEN <<cur>>
    ELSE IF Head(s) = "\n" THEN <<cur>> \o SplitLines(Tail(s), <<>>)
    ELSE SplitLines(Tail(s), Append(cur, Head(s)))

\* lines.map(l => l.trim()).filter(Boolean)
RECURSIVE TrimAndFilter(_)
TrimAndFilter(ls) ==
    IF ls = <<>> THEN <<>>
    ELSE LET t == Trim(Head(ls)) IN
         IF t # <<>> THEN <<t>> \o TrimAndFilter(Tail(ls))
         ELSE TrimAndFilter(Tail(ls))

\* JSON.parse over the documents of a table: the parsed value, or a SyntaxError
JSONparse(table, text) ==
    IF \E e \in table : e.raw = text
    THEN [ok |-> TRUE, value |-> (CHOOSE e \in table : e.raw = text).value]
    ELSE [ok |-> FALSE, value |-> <<>>]

-----------------------------------------------------------------------------
(* Context detection *)

MAX_CHARS == 700
EXTRACT_CHARS == 300
MAX_DEPS == 8

sources == <<
    [file |-> "AGENTS.md",                       extractor |-> "slice"],
    [file |-> "CLAUDE.md",                       extractor |-> "slice"],
    [file |-> "CODEX.md",                        extractor |-> "slice"],
    [file |-> "GEMINI.md",                       extractor |-> "slice"],
    [file |-> ".github/copilot-instructions.md", extractor |-> "slice"],
    [file |-> ".windsurfrules",                  extractor |-> "slice"],
    [file |-> "llms.txt",                        extractor |-> "slice"],
    [file |-> "README.md",                       extractor |-> "slice"],
    [file |-> "package.json",                    extractor |-> "package"],
    [file |-> "prisma/schema.prisma",            extractor |-> "slice"] >>

SEP == <<" ", "|", " ">>
COMMA == <<",", " ">>
NAME_LABEL == <<"n", "a", "m", "e", ":", " ">>
DESC_LABEL == <<"d", "e", "s", "c", "r", "i", "p", "t", "i", "o", "n", ":", " ">>
DEPS_LABEL == <<"d", "e", "p", "s", ":", " ">>

\* package.json documents: raw text and what JSON.parse makes of it
PkgEmptyRaw == <<"{", "}">>
PkgSmallRaw == <<"{", "\"", "n", "a", "m", "e", "\"", ":", "\"", "x", "\"", ",", "\"", "d", "e", "p", "e", "n", "d", "e", "n", "c", "i", "e", "s", "\"", ":", "{", "\"", "a", "\"", ":", "\"", "1", "\"", "}", ",", "\"", "d", "e", "v", "D", "e", "p", "e", "n", "d", "e", "n", "c", "i", "e", "s", "\"", ":", "{", "\"", "b", "\"", ":", "\"", "1", "\"", "}", "}">>
PkgLongRaw ==
    <<"{", "\"", "d", "e", "s", "c", "r", "i", "p", "t", "i", "o", "n", "\"", ":", "\"">>
    \o Rep("d", LongDescLen) \o <<"\"", "}">>
PkgBadRaw == <<"{">>

PkgDocs == {
    [raw |-> PkgEmptyRaw,
     value |-> [name |-> undefined, description |-> undefined,
                dependencies |-> <<>>, devDependencies |-> <<>>]],
    [raw |-> PkgSmallRaw,
     value |-> [name |-> <<"x">>, description |-> undefined,
                dependencies |-> << <<"a">> >>, devDependencies |-> << <<"b">> >>]],
    [raw |-> PkgLongRaw,
     value |-> [name |-> undefined, description |-> Rep("d", LongDescLen),
                dependencies |-> <<>>, devDependencies |-> <<>>]] }

\* the package.json extractor
PackageExtractor(c) ==
    LET parsed == JSONparse(PkgDocs, c) IN
    IF ~parsed.ok THEN <<>>
    ELSE LET pkg == parsed.value
             deps == Slice(pkg.dependencies \o pkg.devDependencies, MAX_DEPS)
             p1 == IF Truthy(pkg.name) THEN << NAME_LABEL \o pkg.name >> ELSE <<>>
             p2 == IF Truthy(pkg.description)
                   THEN << DESC_LABEL \o pkg.description >> ELSE <<>>
             p3 == IF Len(deps) > 0 THEN << DEPS_LABEL \o Join(deps, COMMA) >> ELSE <<>>
         IN Join(p1 \o p2 \o p3, SEP)

Extract(kind, c) ==
    IF kind = "package" THEN PackageExtractor(c) ELSE Slice(c, EXTRACT_CHARS)

\* the whole budget offered to every file
Remaining_Whole(total) == MAX_CHARS

\* the budget left for the file being visited
Remaining(total) == MAX_CHARS - total

\* one iteration of the loop with the chunk and its file put first
VisitSource_Unshift(st, src, entry) ==
    IF ~entry.exists THEN st
    ELSE IF ~entry.readable THEN st
    ELSE LET content == Trim(entry.content) IN
         IF content = <<>> THEN st
         ELSE LET extracted == Trim(Extract(src.extractor, content)) IN
              IF extracted = <<>> THEN st
              ELSE LET chunk == Slice(extracted, Remaining(st.totalChars)) IN
                   [collected   |-> <<chunk>> \o st.collected,
                    usedSources |-> <<src.file>> \o st.usedSources,
                    totalChars  |-> st.totalChars + Len(chunk)]

\* one iteration of the loop over sources, on the directory entry of the file:
\* entry.exists is fs.existsSync, entry.readable is readFileSync not throwing
VisitSource(st, src, entry) ==
    IF ~entry.exists THEN st
    ELSE IF ~entry.readable THEN st
    ELSE LET content == Trim(entry.content) IN
         IF content = <<>> THEN st
         ELSE LET extracted == Trim(Extract(src.extractor, content)) IN
              IF extracted = <<>> THEN st
              ELSE LET chunk == Slice(extracted, Remaining(st.totalChars)) IN
                   [collected   |-> Append(st.collected, chunk),
                    usedSources |-> Append(st.usedSources, src.file),
                    totalChars  |-> st.totalChars + Len(chunk)]

\* the loop's exit test
BudgetExhausted(total) == total >= MAX_CHARS

\* the value detectProjectContext returns
Combined(chunks) == IF chunks = <<>> THEN undefined ELSE Join(chunks, SEP)

\* the diagnostic line written when something was collected
DetectLog(used, chunks) ==
    IF chunks = <<>> THEN <<>>
    ELSE << [kind |-> "AutoDetected", status |-> Len(Join(chunks, SEP)),
             text |-> <<>>, detail |-> used] >>

\* directory entries a context file can have
Absent     == [exists |-> FALSE, readable |-> FALSE, content |-> <<>>]
Unreadable == [exists |-> TRUE,  readable |-> FALSE, content |-> <<>>]
File(c)    == [exists |-> TRUE,  readable |-> TRUE,  content |-> c]

PlainContents == {
    <<" ", "\n">>,
    <<" ", "a", "b", "\n">>,
    Rep("a", EXTRACT_CHARS - 1) \o <<" ">> \o Rep("b", LongLen - EXTRACT_CHARS),
    Rep("a", LongLen) }

PkgContents == { PkgEmptyRaw, PkgSmallRaw \o <<"\n">>, PkgLongRaw, PkgBadRaw }

Entries(src) ==
    {Absent, Unreadable} \cup
    { File(c) : c \in IF src.extractor = "package" THEN PkgContents ELSE PlainContents }

-----------------------------------------------------------------------------
(* String literals of the program and the documents of the model *)

F_FORMAT == <<"-", "-", "f", "o", "r", "m", "a", "t">>
F_CONTEXT == <<"-", "-", "c", "o", "n", "t", "e", "x", "t">>
F_C == <<"-", "c">>
F_NO_AUTO == <<"-", "-", "n", "o", "-", "a", "u", "t", "o", "-", "c", "o", "n", "t", "e", "x", "t">>
F_KEY == <<"-", "-", "k", "e", "y">>
F_K == <<"-", "k">>
F_FILE == <<"-", "-", "f", "i", "l", "e">>
F_F == <<"-", "f">>
F_USER_STORIES == <<"-", "-", "u", "s", "e", "r", "-", "s", "t", "o", "r", "i", "e", "s">>
F_GHERKIN == <<"-", "-", "g", "h", "e", "r", "k", "i", "n">>
F_HELP == <<"-", "-", "h", "e", "l", "p">>
F_H == <<"-", "h">>
F_VERSION == <<"-", "-", "v", "e", "r", "s", "i", "o", "n">>
F_V == <<"-", "v">>
ENFORCE == <<"e", "n", "f", "o", "r", "c", "e">>
F_ISSUE == <<"-", "-", "i", "s", "s", "u", "e">>
F_REPO == <<"-", "-", "r", "e", "p", "o">>
F_MIN_SCORE == <<"-", "-", "m", "i", "n", "-", "s", "c", "o", "r", "e">>
F_GITHUB_TOKEN == <<"-", "-", "g", "i", "t", "h", "u", "b", "-", "t", "o", "k", "e", "n">>
JSON_FMT == <<"j", "s", "o", "n">>
MARKDOWN == <<"m", "a", "r", "k", "d", "o", "w", "n">>
DEFAULT_MIN == <<"8", "0">>
RefineObjRaw ==
    <<"{", "\"", "i", "t", "e", "m", "s", "\"", ":", "[", "{", "\"">>
    \o <<"t", "i", "t", "l", "e", "\"", ":", "\"", "T", "1", "\"", ",">>
    \o <<"\"", "p", "r", "o", "b", "l", "e", "m", "S", "t", "a", "t">>
    \o <<"e", "m", "e", "n", "t", "\"", ":", "\"", "P", "\"", ",", "\"">>
    \o <<"a", "c", "c", "e", "p", "t", "a", "n", "c", "e", "C", "r">>
    \o <<"i", "t", "e", "r", "i", "a", "\"", ":", "[", "\"", "c", "1">>
    \o <<"\"", ",", "\"", "c", "2", "\"", "]", ",", "\"", "e", "s", "t">>
    \o <<"i", "m", "a", "t", "e", "\"", ":", "\"", "S", "\"", ",", "\"">>
    \o <<"p", "r", "i", "o", "r", "i", "t", "y", "\"", ":", "\"", "P">>
    \o <<"1", "\"", ",", "\"", "r", "a", "t", "i", "o", "n", "a", "l">>
    \o <<"e", "\"", ":", "\"", "R", "\"", ",", "\"", "t", "a", "g", "s">>
    \o <<"\"", ":", "[", "\"", "t", "1", "\"", ",", "\"", "t", "2", "\"">>
    \o <<"]", ",", "\"", "u", "s", "e", "r", "S", "t", "o", "r", "y">>
    \o <<"\"", ":", "\"", "U", "\"", "}", ",", "{", "\"", "t", "i", "t">>
    \o <<"l", "e", "\"", ":", "\"", "T", "2", "\"", ",", "\"", "p", "r">>
    \o <<"o", "b", "l", "e", "m", "S", "t", "a", "t", "e", "m", "e">>
    \o <<"n", "t", "\"", ":", "\"", "Q", "\"", ",", "\"", "a", "c", "c">>
    \o <<"e", "p", "t", "a", "n", "c", "e", "C", "r", "i", "t", "e">>
    \o <<"r", "i", "a", "\"", ":", "[", "]", ",", "\"", "e", "s", "t">>
    \o <<"i", "m", "a", "t", "e", "\"", ":", "\"", "M", "\"", ",", "\"">>
    \o <<"p", "r", "i", "o", "r", "i", "t", "y", "\"", ":", "\"", "P">>
    \o <<"2", "\"", ",", "\"", "r", "a", "t", "i", "o", "n", "a", "l">>
    \o <<"e", "\"", ":", "\"", "\"", ",", "\"", "t", "a", "g", "s", "\"">>
    \o <<":", "[", "]", "}", "]", "}">>
RefineObjPretty ==
    <<"{", "\n", " ", " ", "\"", "i", "t", "e", "m", "s", "\"", ":">>
    \o <<" ", "[", "\n", " ", " ", " ", " ", "{", "\n", " ", " ", " ">>
    \o <<" ", " ", " ", "\"", "t", "i", "t", "l", "e", "\"", ":", " ">>
    \o <<"\"", "T", "1", "\"", ",", "\n", " ", " ", " ", " ", " ", " ">>
    \o <<"\"", "p", "r", "o", "b", "l", "e", "m", "S", "t", "a", "t">>
    \o <<"e", "m", "e", "n", "t", "\"", ":", " ", "\"", "P", "\"", ",">>
    \o <<"\n", " ", " ", " ", " ", " ", " ", "\"", "a", "c", "c", "e">>
    \o <<"p", "t", "a", "n", "c", "e", "C", "r", "i", "t", "e", "r">>
    \o <<"i", "a", "\"", ":", " ", "[", "\n", " ", " ", " ", " ", " ">>
    \o <<" ", " ", " ", "\"", "c", "1", "\"", ",", "\n", " ", " ", " ">>
    \o <<" ", " ", " ", " ", " ", "\"", "c", "2", "\"", "\n", " ", " ">>
    \o <<" ", " ", " ", " ", "]", ",", "\n", " ", " ", " ", " ", " ">>
    \o <<" ", "\"", "e", "s", "t", "i", "m", "a", "t", "e", "\"", ":">>
    \o <<" ", "\"", "S", "\"", ",", "\n", " ", " ", " ", " ", " ", " ">>
    \o <<"\"", "p", "r", "i", "o", "r", "i", "t", "y", "\"", ":", " ">>
    \o <<"\"", "P", "1", "\"", ",", "\n", " ", " ", " ", " ", " ", " ">>
    \o <<"\"", "r", "a", "t", "i", "o", "n", "a", "l", "e", "\"", ":">>
    \o <<" ", "\"", "R", "\"", ",", "\n", " ", " ", " ", " ", " ", " ">>
    \o <<"\"", "t", "a", "g", "s", "\"", ":", " ", "[", "\n", " ", " ">>
    \o <<" ", " ", " ", " ", " ", " ", "\"", "t", "1", "\"", ",", "\n">>
    \o <<" ", " ", " ", " ", " ", " ", " ", " ", "\"", "t", "2", "\"">>
    \o <<"\n", " ", " ", " ", " ", " ", " ", "]", ",", "\n", " ", " ">>
    \o <<" ", " ", " ", " ", "\"", "u", "s", "e", "r", "S", "t", "o">>
    \o <<"r", "y", "\"", ":", " ", "\"", "U", "\"", "\n", " ", " ", " ">>
    \o <<" ", "}", ",", "\n", " ", " ", " ", " ", "{", "\n", " ", " ">>
    \o <<" ", " ", " ", " ", "\"", "t", "i", "t", "l", "e", "\"", ":">>
    \o <<" ", "\"", "T", "2", "\"", ",", "\n", " ", " ", " ", " ", " ">>
    \o <<" ", "\"", "p", "r", "o", "b", "l", "e", "m", "S", "t", "a">>
    \o <<"t", "e", "m", "e", "n", "t", "\"", ":", " ", "\"", "Q", "\"">>
    \o <<",", "\n", " ", " ", " ", " ", " ", " ", "\"", "a", "c", "c">>
    \o <<"e", "p", "t", "a", "n", "c", "e", "C", "r", "i", "t", "e">>
    \o <<"r", "i", "a", "\"", ":", " ", "[", "]", ",", "\n", " ", " ">>
    \o <<" ", " ", " ", " ", "\"", "e", "s", "t", "i", "m", "a", "t">>
    \o <<"e", "\"", ":", " ", "\"", "M", "\"", ",", "\n", " ", " ", " ">>
    \o <<" ", " ", " ", "\"", "p", "r", "i", "o", "r", "i", "t", "y">>
    \o <<"\"", ":", " ", "\"", "P", "2", "\"", ",", "\n", " ", " ", " ">>
    \o <<" ", " ", " ", "\"", "r", "a", "t", "i", "o", "n", "a", "l">>
    \o <<"e", "\"", ":", " ", "\"", "\"", ",", "\n", " ", " ", " ", " ">>
    \o <<" ", " ", "\"", "t", "a", "g", "s", "\"", ":", " ", "[", "]">>
    \o <<"\n", " ", " ", " ", " ", "}", "\n", " ", " ", "]", "\n", "}">>
RefineEmptyRaw ==
    <<"{", "}">>
RefineEmptyPretty ==
    <<"{", "}">>
RefineArrRaw ==
    <<"[", "{", "\"", "t", "i", "t", "l", "e", "\"", ":", "\"", "T">>
    \o <<"2", "\"", ",", "\"", "p", "r", "o", "b", "l", "e", "m", "S">>
    \o <<"t", "a", "t", "e", "m", "e", "n", "t", "\"", ":", "\"", "Q">>
    \o <<"\"", ",", "\"", "a", "c", "c", "e", "p", "t", "a", "n", "c">>
    \o <<"e", "C", "r", "i", "t", "e", "r", "i", "a", "\"", ":", "[">>
    \o <<"]", ",", "\"", "e", "s", "t", "i", "m", "a", "t", "e", "\"">>
    \o <<":", "\"", "M", "\"", ",", "\"", "p", "r", "i", "o", "r", "i">>
    \o <<"t", "y", "\"", ":", "\"", "P", "2", "\"", ",", "\"", "r", "a">>
    \o <<"t", "i", "o", "n", "a", "l", "e", "\"", ":", "\"", "\"", ",">>
    \o <<"\"", "t", "a", "g", "s", "\"", ":", "[", "]", "}", "]">>
RefineArrPretty ==
    <<"[", "\n", " ", " ", "{", "\n", " ", " ", " ", " ", "\"", "t">>
    \o <<"i", "t", "l", "e", "\"", ":", " ", "\"", "T", "2", "\"", ",">>
    \o <<"\n", " ", " ", " ", " ", "\"", "p", "r", "o", "b", "l", "e">>
    \o <<"m", "S", "t", "a", "t", "e", "m", "e", "n", "t", "\"", ":">>
    \o <<" ", "\"", "Q", "\"", ",", "\n", " ", " ", " ", " ", "\"", "a">>
    \o <<"c", "c", "e", "p", "t", "a", "n", "c", "e", "C", "r", "i">>
    \o <<"t", "e", "r", "i", "a", "\"", ":", " ", "[", "]", ",", "\n">>
    \o <<" ", " ", " ", " ", "\"", "e", "s", "t", "i", "m", "a", "t">>
    \o <<"e", "\"", ":", " ", "\"", "M", "\"", ",", "\n", " ", " ", " ">>
    \o <<" ", "\"", "p", "r", "i", "o", "r", "i", "t", "y", "\"", ":">>
    \o <<" ", "\"", "P", "2", "\"", ",", "\n", " ", " ", " ", " ", "\"">>
    \o <<"r", "a", "t", "i", "o", "n", "a", "l", "e", "\"", ":", " ">>
    \o <<"\"", "\"", ",", "\n", " ", " ", " ", " ", "\"", "t", "a", "g">>
    \o <<"s", "\"", ":", " ", "[", "]", "\n", " ", " ", "}", "\n", "]">>
GhFullRaw ==
    <<"{", "\"", "t", "i", "t", "l", "e", "\"", ":", "\"", "A", "d">>
    \o <<"d", " ", "l", "o", "g", "i", "n", "\"", ",", "\"", "b", "o">>
    \o <<"d", "y", "\"", ":", "\"", "A", "s", " ", "a", " ", "u", "s">>
    \o <<"e", "r", "\"", ",", "\"", "l", "a", "b", "e", "l", "s", "\"">>
    \o <<":", "[", "{", "\"", "n", "a", "m", "e", "\"", ":", "\"", "b">>
    \o <<"u", "g", "\"", "}", "]", "}">>
GhBareRaw ==
    <<"{", "}">>
LintFlat80Raw ==
    <<"{", "\"", "l", "i", "n", "t", "_", "i", "d", "\"", ":", "\"">>
    \o <<"L", "1", "\"", ",", "\"", "c", "o", "m", "p", "l", "e", "t">>
    \o <<"e", "n", "e", "s", "s", "_", "s", "c", "o", "r", "e", "\"">>
    \o <<":", "8", "0", ",", "\"", "a", "g", "e", "n", "t", "_", "r">>
    \o <<"e", "a", "d", "y", "\"", ":", "t", "r", "u", "e", ",", "\"">>
    \o <<"c", "h", "e", "c", "k", "s", "\"", ":", "{", "\"", "h", "a">>
    \o <<"s", "_", "a", "c", "\"", ":", "{", "\"", "p", "a", "s", "s">>
    \o <<"\"", ":", "t", "r", "u", "e", "}", "}", "}">>
LintFlat79Raw ==
    <<"{", "\"", "c", "o", "m", "p", "l", "e", "t", "e", "n", "e">>
    \o <<"s", "s", "_", "s", "c", "o", "r", "e", "\"", ":", "7", "9">>
    \o <<",", "\"", "a", "g", "e", "n", "t", "_", "r", "e", "a", "d">>
    \o <<"y", "\"", ":", "f", "a", "l", "s", "e", ",", "\"", "c", "h">>
    \o <<"e", "c", "k", "s", "\"", ":", "{", "\"", "h", "a", "s", "_">>
    \o <<"a", "c", "\"", ":", "{", "\"", "p", "a", "s", "s", "\"", ":">>
    \o <<"f", "a", "l", "s", "e", ",", "\"", "m", "e", "s", "s", "a">>
    \o <<"g", "e", "\"", ":", "\"", "a", "d", "d", " ", "A", "C", "\"">>
    \o <<"}", ",", "\"", "h", "a", "s", "_", "t", "i", "t", "l", "e">>
    \o <<"\"", ":", "{", "\"", "p", "a", "s", "s", "\"", ":", "t", "r">>
    \o <<"u", "e", "}", ",", "\"", "h", "a", "s", "_", "s", "c", "o">>
    \o <<"p", "e", "\"", ":", "{", "\"", "p", "a", "s", "s", "\"", ":">>
    \o <<"f", "a", "l", "s", "e", "}", "}", "}">>
LintWrappedRaw ==
    <<"{", "\"", "i", "s", "s", "u", "e", "s", "\"", ":", "[", "{">>
    \o <<"\"", "c", "o", "m", "p", "l", "e", "t", "e", "n", "e", "s">>
    \o <<"s", "_", "s", "c", "o", "r", "e", "\"", ":", "5", "0", ",">>
    \o <<"\"", "c", "h", "e", "c", "k", "s", "\"", ":", "{", "\"", "h">>
    \o <<"a", "s", "_", "a", "c", "\"", ":", "{", "\"", "p", "a", "s">>
    \o <<"s", "\"", ":", "f", "a", "l", "s", "e", "}", "}", "}", "]">>
    \o <<",", "\"", "c", "o", "m", "p", "l", "e", "t", "e", "n", "e">>
    \o <<"s", "s", "_", "s", "c", "o", "r", "e", "\"", ":", "1", "0">>
    \o <<"0", "}">>
LintNoScoreRaw ==
    <<"{", "\"", "a", "g", "e", "n", "t", "_", "r", "e", "a", "d">>
    \o <<"y", "\"", ":", "t", "r", "u", "e", "}">>
LintEmptyIssuesRaw ==
    <<"{", "\"", "i", "s", "s", "u", "e", "s", "\"", ":", "[", "]">>
    \o <<",", "\"", "c", "o", "m", "p", "l", "e", "t", "e", "n", "e">>
    \o <<"s", "s", "_", "s", "c", "o", "r", "e", "\"", ":", "1", "0">>
    \o <<"0", "}">>
S_ADD_LOGIN == <<"A", "d", "d", " ", "l", "o", "g", "i", "n">>
S_AS_A_USER == <<"A", "s", " ", "a", " ", "u", "s", "e", "r">>
S_BUG == <<"b", "u", "g">>
S_HAS_AC == <<"h", "a", "s", "_", "a", "c">>
S_HAS_TITLE == <<"h", "a", "s", "_", "t", "i", "t", "l", "e">>
S_HAS_SCOPE == <<"h", "a", "s", "_", "s", "c", "o", "p", "e">>
S_ADD_AC == <<"a", "d", "d", " ", "A", "C">>
S_L1 == <<"L", "1">>
BadShort == <<"<", "h", "t", "m", "l", ">">>
MD_H2 == <<"#", "#", " ">>
MD_QUOTE == <<"\n", ">", " ">>
MD_PROBLEM == <<"\n", "*", "*", "P", "r", "o", "b", "l", "e", "m", ":", "*", "*", " ">>
MD_ESTIMATE == <<"\n", "*", "*", "E", "s", "t", "i", "m", "a", "t", "e", ":", "*", "*", " ">>
MD_PRIORITY == <<" ", "|", " ", "*", "*", "P", "r", "i", "o", "r", "i", "t", "y", ":", "*", "*", " ">>
MD_RATIONALE == <<"*", "*", "R", "a", "t", "i", "o", "n", "a", "l", "e", ":", "*", "*", " ">>
MD_AC == <<"\n", "*", "*", "A", "c", "c", "e", "p", "t", "a", "n", "c", "e", " ", "C", "r", "i", "t", "e", "r", "i", "a", ":", "*", "*">>
MD_BULLET == <<"-", " ">>
MD_TAGS == <<"\n", "*", "*", "T", "a", "g", "s", ":", "*", "*", " ">>
NL == <<"\n">>
MD_RULE == <<"\n", "\n", "-", "-", "-", "\n", "\n">>

-----------------------------------------------------------------------------
(* Output lines and error messages *)

\* one console.log / console.error call, or the message of one Error:
\* the template used, the status code and the text it embeds
Entry(kind, status, text, detail) ==
    [kind |-> kind, status |-> status, text |-> text, detail |-> detail]

SyntaxErrorMessage == <<"SyntaxError">>
TypeErrorMessage == <<"TypeError">>
NetworkErrorMessage == <<"ECONNREFUSED">>

\* the length of the raw-body excerpt an error message embeds
EXCERPT_CHARS == 200

NoResponse == [status |-> -1, data |-> <<>>, failed |-> FALSE]

-----------------------------------------------------------------------------
(* Refine flow: argument parsing *)

InitialOptions ==
    [items |-> <<>>, format |-> MARKDOWN, context |-> undefined,
     licenseKey |-> undefined, useUserStories |-> FALSE, useGherkin |-> FALSE,
     filePath |-> undefined, noAutoContext |-> FALSE,
     contextExplicitlyProvided |-> FALSE]

\* args[++i]
NextArg(a, i) == IF i + 1 <= Len(a) THEN a[i + 1] ELSE undefined

\* items.push(arg)
PushItem(its, arg) == Append(its, arg)

\* the for loop over args, from index i
RECURSIVE ParseLoop(_, _, _)
ParseLoop(a, i, st) ==
    IF i > Len(a) THEN st
    ELSE LET arg == a[i]
             val == NextArg(a, i)
         IN
         IF arg = F_FORMAT
         THEN ParseLoop(a, i + 2,
                  [st EXCEPT !.format = IF Truthy(val) THEN val ELSE MARKDOWN])
         ELSE IF arg = F_CONTEXT \/ arg = F_C
         THEN ParseLoop(a, i + 2,
                  [st EXCEPT !.context = val, !.contextExplicitlyProvided = TRUE])
         ELSE IF arg = F_NO_AUTO
         THEN ParseLoop(a, i + 1, [st EXCEPT !.noAutoContext = TRUE])
         ELSE IF arg = F_KEY \/ arg = F_K
         THEN ParseLoop(a, i + 2, [st EXCEPT !.licenseKey = val])
         ELSE IF arg = F_FILE \/ arg = F_F
         THEN ParseLoop(a, i + 2, [st EXCEPT !.filePath = val])
         ELSE IF arg = F_USER_STORIES
         THEN ParseLoop(a, i + 1, [st EXCEPT !.useUserStories = TRUE])
         ELSE IF arg = F_GHERKIN
         THEN ParseLoop(a, i + 1, [st EXCEPT !.useGherkin = TRUE])
         ELSE IF ~StartsWithDash(arg)
         THEN ParseLoop(a, i + 1, [st EXCEPT !.items = PushItem(st.items, arg)])
         ELSE ParseLoop(a, i + 1, st)

\* args.includes(x)
Includes(a, x) == \E k \in 1..Len(a) : a[k] = x

IsEnforce(a) == Len(a) > 0 /\ a[1] = ENFORCE
WantsHelp(a) == Includes(a, F_HELP) \/ Includes(a, F_H)
WantsVersion(a) == Includes(a, F_VERSION) \/ Includes(a, F_V)

\* the exit status the README documents for an error
ERROR_EXIT_Two == 2

\* process.exit(1) of a failed run
ERROR_EXIT == 1

-----------------------------------------------------------------------------
(* Refine flow: the result documents *)

ItemA ==
    [title |-> <<"T", "1">>, problemStatement |-> <<"P">>,
     acceptanceCriteria |-> << <<"c", "1">>, <<"c", "2">> >>,
     estimate |-> <<"S">>, priority |-> <<"P", "1">>, rationale |-> <<"R">>,
     tags |-> << <<"t", "1">>, <<"t", "2">> >>, userStory |-> <<"U">>]
ItemB ==
    [title |-> <<"T", "2">>, problemStatement |-> <<"Q">>,
     acceptanceCriteria |-> <<>>,
     estimate |-> <<"M">>, priority |-> <<"P", "2">>, rationale |-> <<>>,
     tags |-> <<>>, userStory |-> undefined]

\* value.items is the items property when hasItems; an array's elements otherwise
RefineDocs == {
    [raw |-> RefineObjRaw, pretty |-> RefineObjPretty,
     value |-> [isArray |-> FALSE, hasItems |-> TRUE, items |-> <<ItemA, ItemB>>]],
    [raw |-> RefineEmptyRaw, pretty |-> RefineEmptyPretty,
     value |-> [isArray |-> FALSE, hasItems |-> FALSE, items |-> <<>>]],
    [raw |-> RefineArrRaw, pretty |-> RefineArrPretty,
     value |-> [isArray |-> TRUE, hasItems |-> FALSE, items |-> <<ItemB>>]] }

\* JSON.stringify(result, null, 2)
JSONstringify(result) == (CHOOSE e \in RefineDocs : e.value = result).pretty

BadLong == Rep("<", LongBodyLen)

\* xs?.length: the list is there and has an element
HasLength(xs) == xs # undefined /\ Len(xs) > 0

\* the lines of one item with the rationale line always written
FormatItem_RationaleAlways(item) ==
    LET l1 == << MD_H2 \o item.title >>
        l2 == IF Truthy(item.userStory) THEN << MD_QUOTE \o item.userStory >> ELSE <<>>
        l3 == << MD_PROBLEM \o item.problemStatement >>
        l4 == << MD_ESTIMATE \o item.estimate \o MD_PRIORITY \o item.priority >>
        l5 == << MD_RATIONALE \o item.rationale >>
        l6 == IF HasLength(item.acceptanceCriteria)
              THEN << MD_AC >> \o
                   [k \in 1..Len(item.acceptanceCriteria) |->
                        MD_BULLET \o item.acceptanceCriteria[k]]
              ELSE <<>>
        l7 == IF HasLength(item.tags)
              THEN << MD_TAGS \o Join(item.tags, COMMA) >> ELSE <<>>
    IN Join(l1 \o l2 \o l3 \o l4 \o l5 \o l6 \o l7, NL)

\* the lines of one item, then lines.join('\n')
FormatItem(item) ==
    LET l1 == << MD_H2 \o item.title >>
        l2 == IF Truthy(item.userStory) THEN << MD_QUOTE \o item.userStory >> ELSE <<>>
        l3 == << MD_PROBLEM \o item.problemStatement >>
        l4 == << MD_ESTIMATE \o item.estimate \o MD_PRIORITY \o item.priority >>
        l5 == IF Truthy(item.rationale) THEN << MD_RATIONALE \o item.rationale >> ELSE <<>>
        l6 == IF HasLength(item.acceptanceCriteria)
              THEN << MD_AC >> \o
                   [k \in 1..Len(item.acceptanceCriteria) |->
                        MD_BULLET \o item.acceptanceCriteria[k]]
              ELSE <<>>
        l7 == IF HasLength(item.tags)
              THEN << MD_TAGS \o Join(item.tags, COMMA) >> ELSE <<>>
    IN Join(l1 \o l2 \o l3 \o l4 \o l5 \o l6 \o l7, NL)

formatMarkdown(its) == Join([k \in 1..Len(its) |-> FormatItem(its[k])], MD_RULE)

-----------------------------------------------------------------------------
(* Refine flow: the request and the mapping of the response *)

\* the JSON body with the context key always written
RefineBody_ContextAlways(its, ctx, us, gh) ==
    [keys |-> {"items", "context"} \cup (IF us THEN {"useUserStories"} ELSE {})
                                   \cup (IF gh THEN {"useGherkin"} ELSE {}),
     items |-> its,
     context |-> IF Truthy(ctx) THEN ctx ELSE undefined,
     useUserStories |-> us,
     useGherkin |-> gh]

\* the JSON body: a key is present exactly when its option is truthy
RefineBody(its, ctx, us, gh) ==
    [keys |-> {"items"} \cup (IF Truthy(ctx) THEN {"context"} ELSE {})
                        \cup (IF us THEN {"useUserStories"} ELSE {})
                        \cup (IF gh THEN {"useGherkin"} ELSE {}),
     items |-> its,
     context |-> IF Truthy(ctx) THEN ctx ELSE undefined,
     useUserStories |-> us,
     useGherkin |-> gh]

\* the x-license-key header, undefined when it is not attached
KeyHeader(key) == IF Truthy(key) THEN key ELSE undefined

Request(method, url, key, auth, body) ==
    [method |-> method, url |-> url, licenseKey |-> key, authorization |-> auth,
     body |-> body]

RefineRequest(its, ctx, us, gh, key) ==
    Request("POST", "/api/refine", KeyHeader(key), undefined,
            RefineBody(its, ctx, us, gh))

Rejected(err) == [ok |-> FALSE, value |-> <<>>, error |-> err]
Resolved(v) == [ok |-> TRUE, value |-> v, error |-> <<>>]

\* the status is missing (0) or an error status
IsErrorStatus(status) == status = 0 \/ status >= 400

\* the generic status test made before the 429 and 402 tests
CallApiSettle_GenericFirst(status, data) ==
    IF IsErrorStatus(status)
    THEN Rejected(Entry("ApiError", status, data, <<>>))
    ELSE IF status = 429
    THEN Rejected(Entry("RateLimit", -1, <<>>, <<>>))
    ELSE IF status = 402
    THEN Rejected(Entry("TooManyItems", -1, <<>>, <<>>))
    ELSE LET parsed == JSONparse(RefineDocs, data) IN
         IF parsed.ok THEN Resolved(parsed.value)
         ELSE Rejected(Entry("InvalidJSON", -1, Slice(data, EXCERPT_CHARS), <<>>))

\* the 'end' handler of callApi: how the promise settles
CallApiSettle(status, data) ==
    IF status = 429
    THEN Rejected(Entry("RateLimit", -1, <<>>, <<>>))
    ELSE IF status = 402
    THEN Rejected(Entry("TooManyItems", -1, <<>>, <<>>))
    ELSE IF IsErrorStatus(status)
    THEN Rejected(Entry("ApiError", status, data, <<>>))
    ELSE LET parsed == JSONparse(RefineDocs, data) IN
         IF parsed.ok THEN Resolved(parsed.value)
         ELSE Rejected(Entry("InvalidJSON", -1, Slice(data, EXCERPT_CHARS), <<>>))

\* the try block of main after callApi resolved: what console.log writes, or
\* the TypeError of calling map on a plain object
PrintResult(fmt, result) ==
    IF fmt = JSON_FMT
    THEN Resolved(Entry("Json", -1, JSONstringify(result), <<>>))
    ELSE IF result.hasItems \/ result.isArray
    THEN Resolved(Entry("Markdown", -1, formatMarkdown(result.items), <<>>))
    ELSE Rejected(Entry("Exception", -1, <<>>, TypeErrorMessage))

-----------------------------------------------------------------------------
(* Refine flow: the steps of main *)

Exit(code) == pc' = "exit" /\ exitCode' = code

\* main hands the arguments after 'enforce' to runEnforce
Dispatch ==
    /\ pc = "start"
    /\ IsEnforce(args)
    /\ pc' = "enforce"
    /\ UNCHANGED <<envVars, printVars, refineVars, enforceVars, detectVars, ioVars>>

ShowHelp ==
    /\ pc = "start"
    /\ ~IsEnforce(args)
    /\ WantsHelp(args)
    /\ stdout' = Append(stdout, Entry("Help", -1, <<>>, <<>>))
    /\ Exit(0)
    /\ UNCHANGED <<envVars, printVars, refineVars, enforceVars, detectVars, requests,
                   response, stderr>>

ShowVersion ==
    /\ pc = "start"
    /\ ~IsEnforce(args)
    /\ ~WantsHelp(args)
    /\ WantsVersion(args)
    /\ stdout' = Append(stdout, Entry("Version", -1, <<>>, <<>>))
    /\ Exit(0)
    /\ UNCHANGED <<envVars, printVars, refineVars, enforceVars, detectVars, requests,
                   response, stderr>>

ParseArgs ==
    /\ pc = "start"
    /\ ~IsEnforce(args)
    /\ ~WantsHelp(args)
    /\ ~WantsVersion(args)
    /\ LET st == ParseLoop(args, 1, InitialOptions) IN
        /\ items' = st.items
        /\ format' = st.format
        /\ context' = st.context
        /\ licenseKey' = st.licenseKey
        /\ useUserStories' = st.useUserStories
        /\ useGherkin' = st.useGherkin
        /\ filePath' = st.filePath
        /\ noAutoContext' = st.noAutoContext
        /\ contextExplicitlyProvided' = st.contextExplicitlyProvided
    /\ pc' = "file"
    /\ UNCHANGED <<envVars, printVars, stdinPos, lines, enforceVars, detectVars,
                   ioVars>>

\* the new lines put in front of the items instead of behind them
PushAll_Prepend(its, more) == more \o its

\* items.push(...more)
PushAll(its, more) == its \o more

\* the lines of the item file that become items
FileItems(text) == TrimAndFilter(SplitLines(text, <<>>))

NoFile ==
    /\ pc = "file"
    /\ ~Truthy(filePath)
    /\ pc' = "stdin"
    /\ UNCHANGED <<envVars, printVars, refineVars, enforceVars, detectVars, ioVars>>

FileNotFound ==
    /\ pc = "file"
    /\ Truthy(filePath)
    /\ ~itemFile.exists
    /\ stderr' = Append(stderr, Entry("FileNotFound", -1, filePath, <<>>))
    /\ Exit(ERROR_EXIT)
    /\ UNCHANGED <<envVars, printVars, refineVars, enforceVars, detectVars, requests,
                   response, stdout>>

ReadFile ==
    /\ pc = "file"
    /\ Truthy(filePath)
    /\ itemFile.exists
    /\ items' = PushAll(items, FileItems(itemFile.content))
    /\ pc' = "stdin"
    /\ UNCHANGED <<envVars, printVars, format, context, licenseKey, useUserStories,
                   useGherkin, filePath, noAutoContext, contextExplicitlyProvided,
                   stdinPos, lines, enforceVars, detectVars, ioVars>>

\* readStdin on a terminal returns [] without reading
StdinSkipped(tty) == tty

StdinTTY ==
    /\ pc = "stdin"
    /\ StdinSkipped(isTTY)
    /\ pc' = "check"
    /\ UNCHANGED <<envVars, printVars, refineVars, enforceVars, detectVars, ioVars>>

\* one iteration of the for await loop
KeepLine(ls, line) == IF Trim(line) # <<>> THEN Append(ls, Trim(line)) ELSE ls

StdinLine ==
    /\ pc = "stdin"
    /\ ~StdinSkipped(isTTY)
    /\ stdinPos < Len(stdin)
    /\ lines' = KeepLine(lines, stdin[stdinPos + 1])
    /\ stdinPos' = stdinPos + 1
    /\ UNCHANGED <<pc, envVars, printVars, items, format, context, licenseKey,
                   useUserStories,
                   useGherkin, filePath, noAutoContext, contextExplicitlyProvided,
                   enforceVars, detectVars, ioVars>>

\* end of stream: readStdin returns and main appends its lines
StdinEnd ==
    /\ pc = "stdin"
    /\ ~StdinSkipped(isTTY)
    /\ stdinPos = Len(stdin)
    /\ items' = PushAll(items, lines)
    /\ pc' = "check"
    /\ UNCHANGED <<envVars, printVars, format, context, licenseKey, useUserStories,
                   useGherkin, filePath, noAutoContext, contextExplicitlyProvided,
                   stdinPos, lines, enforceVars, detectVars, ioVars>>

\* the emptiness test left out
NoItemsGiven_Never(its) == FALSE

\* items.length === 0
NoItemsGiven(its) == Len(its) = 0

NoItems ==
    /\ pc = "check"
    /\ NoItemsGiven(items)
    /\ stderr' = Append(stderr, Entry("NoItems", -1, <<>>, <<>>))
    /\ stdout' = Append(stdout, Entry("Help", -1, <<>>, <<>>))
    /\ Exit(ERROR_EXIT)
    /\ UNCHANGED <<envVars, printVars, refineVars, enforceVars, detectVars, requests,
                   response>>

HaveItems ==
    /\ pc = "check"
    /\ ~NoItemsGiven(items)
    /\ pc' = "detect"
    /\ UNCHANGED <<envVars, printVars, refineVars, enforceVars, detectVars, ioVars>>

-----------------------------------------------------------------------------
(* Refine flow: context detection, the request, the response *)

EmptyDetect == [collected |-> <<>>, usedSources |-> <<>>, totalChars |-> 0]

\* the for loop of detectProjectContext over a directory, from source k;
\* dir[k] is the directory entry of sources[k]
RECURSIVE DetectLoop(_, _, _)
DetectLoop(dir, k, st) ==
    IF k > Len(sources) \/ BudgetExhausted(st.totalChars) THEN st
    ELSE DetectLoop(dir, k + 1, VisitSource(st, sources[k], dir[k]))

\* the context main sends: the detected one when there is one
ChooseContext(ctx, det) == IF Truthy(det) THEN det ELSE ctx

\* detection run whenever --no-auto-context is absent
DetectionWanted_DespiteContext(explicit, noAuto) == ~noAuto

\* detection runs unless --context or --no-auto-context was given
DetectionWanted(explicit, noAuto) == ~explicit /\ ~noAuto

EmptyDir == [k \in 1..Len(sources) |-> Absent]
SmallDir == [k \in 1..Len(sources) |->
                IF sources[k].file = "README.md" THEN File(<<"#", " ", "r", "\n">>)
                ELSE IF sources[k].file = "package.json" THEN File(PkgSmallRaw)
                ELSE Absent]
ProjectDirs == {EmptyDir, SmallDir}

AutoDetect ==
    /\ pc = "detect"
    /\ DetectionWanted(contextExplicitlyProvided, noAutoContext)
    /\ \E dir \in ProjectDirs :
        LET st == DetectLoop(dir, 1, EmptyDetect) IN
        /\ collected' = st.collected
        /\ usedSources' = st.usedSources
        /\ totalChars' = st.totalChars
        /\ detected' = Combined(st.collected)
        /\ stderr' = stderr \o DetectLog(st.usedSources, st.collected)
        /\ context' = ChooseContext(context, Combined(st.collected))
    /\ pc' = "call"
    /\ UNCHANGED <<envVars, printVars, items, format, licenseKey, useUserStories,
                   useGherkin,
                   filePath, noAutoContext, contextExplicitlyProvided, stdinPos,
                   lines, enforceVars, srcIdx, dirEntry, requests, response, stdout,
                   exitCode>>

SkipDetect ==
    /\ pc = "detect"
    /\ ~DetectionWanted(contextExplicitlyProvided, noAutoContext)
    /\ pc' = "call"
    /\ UNCHANGED <<envVars, printVars, refineVars, enforceVars, detectVars, ioVars>>

\* callApi writes the request and waits for the response
CallApi ==
    /\ pc = "call"
    /\ requests' = Append(requests,
           RefineRequest(items, context, useUserStories, useGherkin, licenseKey))
    /\ pc' = "await_refine"
    /\ UNCHANGED <<envVars, printVars, refineVars, enforceVars, detectVars, response,
                   stdout,
                   stderr, exitCode>>

RefineStatuses == {0, 200, 402, 429, 500}
RefineBodies == {RefineObjRaw, RefineEmptyRaw, RefineArrRaw, BadShort, BadLong}

\* the response ends: callApi settles and main prints the result or the error
RefineResponse ==
    /\ pc = "await_refine"
    /\ \E status \in RefineStatuses, data \in RefineBodies :
        LET settled == CallApiSettle(status, data)
            outcome == IF settled.ok THEN PrintResult(format, settled.value)
                       ELSE settled
        IN
        /\ response' = [status |-> status, data |-> data, failed |-> FALSE]
        /\ refined' = (IF settled.ok THEN settled.value ELSE refined)
        /\ IF outcome.ok
           THEN /\ stdout' = Append(stdout, outcome.value)
                /\ Exit(0)
                /\ UNCHANGED stderr
           ELSE /\ stderr' = Append(stderr, outcome.error)
                /\ Exit(ERROR_EXIT)
                /\ UNCHANGED stdout
    /\ UNCHANGED <<envVars, refineVars, enforceVars, detectVars, requests>>

\* the request emits 'error': callApi rejects with the transport's error
RefineNetworkError ==
    /\ pc = "await_refine"
    /\ response' = [status |-> -1, data |-> <<>>, failed |-> TRUE]
    /\ stderr' = Append(stderr, Entry("Exception", -1, <<>>, NetworkErrorMessage))
    /\ Exit(ERROR_EXIT)
    /\ UNCHANGED <<envVars, printVars, refineVars, enforceVars, detectVars, requests,
                   stdout>>

\* main prints the resolved result in the chosen format and ends
Format ==
    /\ pc = "print"
    /\ LET outcome == PrintResult(format, refined) IN
        /\ outcome.ok
        /\ stdout' = Append(stdout, outcome.value)
    /\ Exit(0)
    /\ UNCHANGED <<envVars, printVars, refineVars, enforceVars, detectVars, requests,
                   response, stderr>>

-----------------------------------------------------------------------------
(* Context detection, one file at a time *)

CtxVisit ==
    /\ pc = "ctx_loop"
    /\ srcIdx <= Len(sources)
    /\ ~BudgetExhausted(totalChars)
    /\ \E e \in Entries(sources[srcIdx]) :
        LET st == VisitSource([collected |-> collected, usedSources |-> usedSources,
                               totalChars |-> totalChars], sources[srcIdx], e)
        IN /\ dirEntry' = e
           /\ collected' = st.collected
           /\ usedSources' = st.usedSources
           /\ totalChars' = st.totalChars
    /\ srcIdx' = srcIdx + 1
    /\ UNCHANGED <<pc, envVars, printVars, refineVars, enforceVars, detected, ioVars>>

CtxReturn ==
    /\ pc = "ctx_loop"
    /\ srcIdx > Len(sources) \/ BudgetExhausted(totalChars)
    /\ detected' = Combined(collected)
    /\ stderr' = stderr \o DetectLog(usedSources, collected)
    /\ pc' = "ctx_done"
    /\ UNCHANGED <<envVars, printVars, refineVars, enforceVars, srcIdx, collected,
                   usedSources, totalChars, dirEntry, requests, response, stdout,
                   exitCode>>

-----------------------------------------------------------------------------
(* Enforce flow: argument parsing *)

NaN == <<>>
Number(n) == <<n>>

DigitChars == <<"0", "1", "2", "3", "4", "5", "6", "7", "8", "9">>
IsDigit(c) == \E d \in 1..10 : DigitChars[d] = c
DigitVal(c) == (CHOOSE d \in 1..10 : DigitChars[d] = c) - 1

\* the value of the longest prefix of decimal digits, NaN when there is none
RECURSIVE DigitsValue(_, _, _)
DigitsValue(s, acc, seen) ==
    IF s # <<>> /\ IsDigit(Head(s))
    THEN DigitsValue(Tail(s), 10 * acc + DigitVal(Head(s)), TRUE)
    ELSE IF seen THEN Number(acc) ELSE NaN

\* parseInt(s, 10)
ParseInt(s) ==
    LET t == TrimStart(s)
        signed == t # <<>> /\ Head(t) \in {"-", "+"}
        v == DigitsValue(IF signed THEN Tail(t) ELSE t, 0, FALSE)
    IN IF v = NaN THEN NaN
       ELSE IF signed /\ Head(t) = "-" THEN Number(0 - v[1]) ELSE v

\* let minScore = 80
DEFAULT_MIN_SCORE == 80

InitialEnforce(token) ==
    [issueNumber |-> undefined, repo |-> undefined,
     minScore |-> Number(DEFAULT_MIN_SCORE), licenseKey |-> undefined,
     githubToken |-> token]

\* the for loop of runEnforce over its arguments, from index i
RECURSIVE ParseEnforceLoop(_, _, _)
ParseEnforceLoop(a, i, st) ==
    IF i > Len(a) THEN st
    ELSE LET arg == a[i]
             val == NextArg(a, i)
         IN
         IF arg = F_ISSUE
         THEN ParseEnforceLoop(a, i + 2, [st EXCEPT !.issueNumber = val])
         ELSE IF arg = F_REPO
         THEN ParseEnforceLoop(a, i + 2, [st EXCEPT !.repo = val])
         ELSE IF arg = F_MIN_SCORE
         THEN ParseEnforceLoop(a, i + 2,
                  [st EXCEPT !.minScore =
                       ParseInt(IF Truthy(val) THEN val ELSE DEFAULT_MIN)])
         ELSE IF arg = F_KEY \/ arg = F_K
         THEN ParseEnforceLoop(a, i + 2, [st EXCEPT !.licenseKey = val])
         ELSE IF arg = F_GITHUB_TOKEN
         THEN ParseEnforceLoop(a, i + 2, [st EXCEPT !.githubToken = val])
         ELSE ParseEnforceLoop(a, i + 1, st)

\* !issueNumber || !repo
MissingRequired(num, rp) == ~Truthy(num) \/ ~Truthy(rp)

-----------------------------------------------------------------------------
(* Enforce flow: the documents of the two endpoints *)

GhDocs == {
    [raw |-> GhFullRaw,
     value |-> [title |-> S_ADD_LOGIN, body |-> S_AS_A_USER, labels |-> << S_BUG >>]],
    [raw |-> GhBareRaw,
     value |-> [title |-> undefined, body |-> undefined, labels |-> <<>>]] }

\* a field of a lint result is <<v>> when present and <<>> when absent
Result(id, score, ready, checks) ==
    [lint_id |-> id, completeness_score |-> score, agent_ready |-> ready,
     checks |-> checks]
Check(name, pass, message) == [name |-> name, pass |-> pass, message |-> message]

NoResult == Result(undefined, <<>>, <<>>, <<>>)

LintDocs == {
    [raw |-> LintFlat80Raw,
     value |-> [hasIssues |-> FALSE, issues |-> <<>>,
                flat |-> Result(S_L1, <<80>>, <<TRUE>>,
                                << << Check(S_HAS_AC, TRUE, undefined) >> >>)]],
    [raw |-> LintFlat79Raw,
     value |-> [hasIssues |-> FALSE, issues |-> <<>>,
                flat |-> Result(undefined, <<79>>, <<FALSE>>,
                                << << Check(S_HAS_AC, FALSE, S_ADD_AC),
                                      Check(S_HAS_TITLE, TRUE, undefined),
                                      Check(S_HAS_SCOPE, FALSE, undefined) >> >>)]],
    [raw |-> LintWrappedRaw,
     value |-> [hasIssues |-> TRUE,
                issues |-> << Result(undefined, <<50>>, <<>>,
                                     << << Check(S_HAS_AC, FALSE, undefined) >> >>) >>,
                flat |-> Result(undefined, <<100>>, <<>>, <<>>)]],
    [raw |-> LintNoScoreRaw,
     value |-> [hasIssues |-> FALSE, issues |-> <<>>,
                flat |-> Result(undefined, <<>>, <<TRUE>>, <<>>)]],
    [raw |-> LintEmptyIssuesRaw,
     value |-> [hasIssues |-> TRUE, issues |-> <<>>,
                flat |-> Result(undefined, <<100>>, <<>>, <<>>)]] }

\* the top-level object taken whatever the issues list holds
IssueResult_Flat(lr) == lr.flat

\* lintResult.issues?.[0] ?? lintResult
IssueResult(lr) ==
    IF lr.hasIssues /\ Len(lr.issues) > 0 THEN lr.issues[1] ELSE lr.flat

\* x ?? d on an optional field
OrElse(opt, d) == IF opt = <<>> THEN d ELSE opt[1]

Score(res) == OrElse(res.completeness_score, 0)
AgentReady(res) == OrElse(res.agent_ready, FALSE)
Checks(res) == OrElse(res.checks, <<>>)

\* the comparison made strict
MeetsThreshold_Strict(score, min) == min # NaN /\ score > min[1]

\* score >= minScore, false when minScore is NaN
MeetsThreshold(score, min) == min # NaN /\ score >= min[1]

\* Object.entries(checks).filter(([, v]) => !v.pass)
RECURSIVE Failing(_)
Failing(cs) ==
    IF cs = <<>> THEN <<>>
    ELSE IF ~Head(cs).pass THEN <<Head(cs)>> \o Failing(Tail(cs))
    ELSE Failing(Tail(cs))

\* the message part of a failing check's line, empty when it has no message
CheckMessage(c) == IF Truthy(c.message) THEN c.message ELSE <<>>

MissingLines(failing) ==
    IF Len(failing) > 0
    THEN << Entry("MissingHeader", -1, <<>>, <<>>) >> \o
         [k \in 1..Len(failing) |->
              Entry("MissingCheck", -1, failing[k].name, CheckMessage(failing[k]))]
    ELSE <<>>

LintIdPart(res) == IF Truthy(res.lint_id) THEN res.lint_id ELSE <<>>

\* the lines of the passing branch
PassedLines(res, num, title) ==
    << Entry("LintPassed", Score(res), LintIdPart(res),
             IF AgentReady(res) THEN <<"true">> ELSE <<"false">>),
       Entry("IssueLine", -1, title, num),
       Entry("Proceeding", -1, <<>>, <<>>) >>

\* the lines of the failing branch
FailedLines(res, num, title, rp) ==
    << Entry("LintFailed", Score(res), LintIdPart(res), <<>>),
       Entry("IssueLine", -1, title, num) >>
    \o MissingLines(Failing(Checks(res)))
    \o << Entry("EditHint", -1, rp, num) >>

\* process.exit of the threshold comparison
PASS_EXIT == 0
FAIL_EXIT == 1

-----------------------------------------------------------------------------
(* Enforce flow: the steps of runEnforce *)

EnforceParse ==
    /\ pc = "enforce"
    /\ LET st == ParseEnforceLoop(Tail(args), 1, InitialEnforce(envToken)) IN
        /\ issueNumber' = st.issueNumber
        /\ repo' = st.repo
        /\ minScore' = st.minScore
        /\ licenseKey' = st.licenseKey
        /\ githubToken' = st.githubToken
    /\ pc' = "validate"
    /\ UNCHANGED <<envVars, printVars, items, format, context, useUserStories,
                   useGherkin,
                   filePath, noAutoContext, contextExplicitlyProvided, stdinPos,
                   lines, issue, lintResult, detectVars, ioVars>>

EnforceUsage ==
    /\ pc = "validate"
    /\ MissingRequired(issueNumber, repo)
    /\ stderr' = stderr \o << Entry("EnforceRequired", -1, <<>>, <<>>),
                              Entry("EnforceUsage", -1, <<>>, <<>>) >>
    /\ Exit(ERROR_EXIT)
    /\ UNCHANGED <<envVars, printVars, refineVars, enforceVars, detectVars, requests,
                   response, stdout>>

\* the Authorization header, undefined when it is not attached
AuthHeader(token) == IF Truthy(token) THEN token ELSE undefined

IssueRequest(num, rp, token) ==
    Request("GET", "/repos/issues", undefined, AuthHeader(token),
            [repo |-> rp, issueNumber |-> num])

LintRequest(iss, key) ==
    Request("POST", "/api/lint", KeyHeader(key), undefined,
            [issues |-> << iss >>, preserve_structure |-> TRUE])

FetchIssue ==
    /\ pc = "validate"
    /\ ~MissingRequired(issueNumber, repo)
    /\ requests' = Append(requests, IssueRequest(issueNumber, repo, githubToken))
    /\ pc' = "await_gh"
    /\ UNCHANGED <<envVars, printVars, refineVars, enforceVars, detectVars, response,
                   stdout,
                   stderr, exitCode>>

\* x || '' on a string field
OrEmpty(x) == IF Truthy(x) THEN x ELSE <<>>

\* the body parsed whatever the status of the issue fetch is
GhSettle_ParseAnyStatus(status, data, num, rp) ==
    LET parsed == JSONparse(GhDocs, data) IN
    IF parsed.ok
    THEN Resolved([title |-> OrEmpty(parsed.value.title),
                   body |-> OrEmpty(parsed.value.body),
                   labels |-> parsed.value.labels])
    ELSE Rejected(Entry("FetchIssueError", -1, <<>>, SyntaxErrorMessage))

\* the try block around the issue fetch: the issue, or the error line written
GhSettle(status, data, num, rp) ==
    IF status = 404
    THEN Rejected(Entry("IssueNotFound", -1, num, rp))
    ELSE IF status >= 400
    THEN Rejected(Entry("GitHubApiError", status, Slice(data, EXCERPT_CHARS), <<>>))
    ELSE LET parsed == JSONparse(GhDocs, data) IN
         IF parsed.ok
         THEN Resolved([title |-> OrEmpty(parsed.value.title),
                        body |-> OrEmpty(parsed.value.body),
                        labels |-> parsed.value.labels])
         ELSE Rejected(Entry("FetchIssueError", -1, <<>>, SyntaxErrorMessage))

GhStatuses == {0, 200, 404, 500}
GhBodies == {GhFullRaw, GhBareRaw, BadShort, BadLong}

\* the issue fetch ends: on success the lint request is sent at once
GhResponse ==
    /\ pc = "await_gh"
    /\ \E status \in GhStatuses, data \in GhBodies :
        LET settled == GhSettle(status, data, issueNumber, repo) IN
        /\ response' = [status |-> status, data |-> data, failed |-> FALSE]
        /\ IF settled.ok
           THEN /\ issue' = settled.value
                /\ requests' = Append(requests, LintRequest(settled.value, licenseKey))
                /\ pc' = "await_lint"
                /\ UNCHANGED <<stderr, exitCode>>
           ELSE /\ stderr' = Append(stderr, settled.error)
                /\ Exit(ERROR_EXIT)
                /\ UNCHANGED <<issue, requests>>
    /\ UNCHANGED <<envVars, printVars, refineVars, issueNumber, repo, minScore,
                   githubToken,
                   lintResult, detectVars, stdout>>

GhNetworkError ==
    /\ pc = "await_gh"
    /\ response' = [status |-> -1, data |-> <<>>, failed |-> TRUE]
    /\ stderr' = Append(stderr,
                        Entry("FetchIssueError", -1, <<>>, NetworkErrorMessage))
    /\ Exit(ERROR_EXIT)
    /\ UNCHANGED <<envVars, printVars, refineVars, enforceVars, detectVars, requests,
                   stdout>>

\* the try block around the lint call: the parsed result, or the error line
LintSettle(status, data) ==
    IF status >= 400
    THEN Rejected(Entry("LintApiError", status, Slice(data, EXCERPT_CHARS), <<>>))
    ELSE LET parsed == JSONparse(LintDocs, data) IN
         IF parsed.ok THEN Resolved(parsed.value)
         ELSE Rejected(Entry("LintCallError", -1, <<>>, SyntaxErrorMessage))

LintStatuses == {0, 200, 500}
LintBodies == {LintFlat80Raw, LintFlat79Raw, LintWrappedRaw, LintNoScoreRaw,
               LintEmptyIssuesRaw, BadShort, BadLong}

\* the lint call ends: the result is normalized, compared and reported
LintResponse ==
    /\ pc = "await_lint"
    /\ \E status \in LintStatuses, data \in LintBodies :
        LET settled == LintSettle(status, data) IN
        /\ response' = [status |-> status, data |-> data, failed |-> FALSE]
        /\ IF settled.ok
           THEN LET res == IssueResult(settled.value) IN
                /\ lintResult' = settled.value
                /\ UNCHANGED stderr
                /\ IF MeetsThreshold(Score(res), minScore)
                   THEN /\ stdout' = stdout \o PassedLines(res, issueNumber, issue.title)
                        /\ Exit(PASS_EXIT)
                   ELSE /\ stdout' = stdout \o
                                FailedLines(res, issueNumber, issue.title, repo)
                        /\ Exit(FAIL_EXIT)
           ELSE /\ stderr' = Append(stderr, settled.error)
                /\ Exit(ERROR_EXIT)
                /\ UNCHANGED <<lintResult, stdout>>
    /\ UNCHANGED <<envVars, printVars, refineVars, issueNumber, repo, minScore,
                   githubToken,
                   issue, detectVars, requests>>

LintNetworkError ==
    /\ pc = "await_lint"
    /\ response' = [status |-> -1, data |-> <<>>, failed |-> TRUE]
    /\ stderr' = Append(stderr, Entry("LintCallError", -1, <<>>, NetworkErrorMessage))
    /\ Exit(ERROR_EXIT)
    /\ UNCHANGED <<envVars, printVars, refineVars, enforceVars, detectVars, requests,
                   stdout>>

-----------------------------------------------------------------------------
(* The runs checked *)

SeqsUpTo(S, n) == UNION { [1..k -> S] : k \in 0..n }

ITEM_A == <<"A">>
ITEM_B_PADDED == <<" ", "B", " ">>

\* the words a refine command line is made of
Tokens == {ITEM_A, ITEM_B_PADDED, F_FILE, F_HELP, F_VERSION, F_FORMAT, JSON_FMT,
           F_NO_AUTO}

RefineArgVectors == SeqsUpTo(Tokens, MaxArgs)

IssueOpts == { <<>>, <<F_ISSUE, <<"4", "2">> >>, <<F_ISSUE>> }
RepoOpts == { <<>>, <<F_REPO, <<"o", "/", "r">> >>, <<F_REPO, <<>> >> }
MinScoreOpts == { <<>>, <<F_MIN_SCORE, <<"5", "0">> >>, <<F_MIN_SCORE, <<"0">> >>,
                  <<F_MIN_SCORE, <<"x">> >>, <<F_MIN_SCORE>> }
KeyOpts == { <<>>, <<F_KEY, <<"K">> >>, <<F_GITHUB_TOKEN, <<"G">> >> }

EnforceArgVectors ==
    { <<ENFORCE>> \o a \o b \o c \o d :
        a \in IssueOpts, b \in RepoOpts, c \in MinScoreOpts, d \in KeyOpts }

\* standard input: a terminal, or a pipe with the lines it delivers
StdinChoices == {
    [tty |-> TRUE,  lines |-> << <<"D">> >>],
    [tty |-> FALSE, lines |-> <<>>],
    [tty |-> FALSE, lines |-> << <<"D">> >>],
    [tty |-> FALSE, lines |-> << <<" ">>, <<" ", "D", "\t">>, <<>>, <<"E">> >>] }

\* what can be at the --file path
ItemFileEntries == {
    Absent,
    File(<<" ", "\n">>),
    File(<<"B", "\n", " ", "\n", "\t", "C", " ">>) }

InitProgramAt(start) ==
    /\ pc = start
    /\ items = <<>> /\ format = MARKDOWN /\ context = undefined
    /\ licenseKey = undefined /\ useUserStories = FALSE /\ useGherkin = FALSE
    /\ filePath = undefined /\ noAutoContext = FALSE
    /\ contextExplicitlyProvided = FALSE
    /\ stdinPos = 0 /\ lines = <<>>
    /\ issueNumber = undefined /\ repo = undefined
    /\ minScore = Number(DEFAULT_MIN_SCORE) /\ githubToken = undefined
    /\ issue = [title |-> <<>>, body |-> <<>>, labels |-> <<>>]
    /\ lintResult = [hasIssues |-> FALSE, issues |-> <<>>, flat |-> NoResult]
    /\ srcIdx = 1 /\ collected = <<>> /\ usedSources = <<>> /\ totalChars = 0
    /\ detected = undefined /\ dirEntry = Absent
    /\ requests = <<>> /\ response = NoResponse
    /\ stdout = <<>> /\ stderr = <<>> /\ exitCode = NoExit

Init ==
    /\ InitProgramAt("start")
    /\ args \in RefineArgVectors \cup EnforceArgVectors
    /\ \E sc \in (IF IsEnforce(args) THEN { [tty |-> TRUE, lines |-> <<>>] }
                  ELSE StdinChoices) :
            isTTY = sc.tty /\ stdin = sc.lines
    /\ itemFile \in (IF Includes(args, F_FILE) THEN ItemFileEntries ELSE {Absent})
    /\ envToken \in (IF IsEnforce(args) THEN {undefined, <<"E">>} ELSE {undefined})
    /\ envKey = undefined
    /\ refined = undefined

Next ==
    \/ Dispatch \/ ShowHelp \/ ShowVersion \/ ParseArgs
    \/ NoFile \/ FileNotFound \/ ReadFile
    \/ StdinTTY \/ StdinLine \/ StdinEnd
    \/ NoItems \/ HaveItems
    \/ AutoDetect \/ SkipDetect
    \/ CallApi \/ RefineResponse \/ RefineNetworkError
    \/ EnforceParse \/ EnforceUsage \/ FetchIssue
    \/ GhResponse \/ GhNetworkError
    \/ LintResponse \/ LintNetworkError

Spec == Init /\ [][Next]_vars

\* the words of a refine command line that set the options of the request
OptTokens == {ITEM_A, <<>>, F_CONTEXT, F_C, F_NO_AUTO, F_KEY, F_K, F_USER_STORIES,
              F_GHERKIN}

OptArgVectors ==
    SeqsUpTo(OptTokens, MaxArgs) \cup {<<F_HELP>>, <<F_VERSION>>, <<F_FILE, ITEM_A>>}

\* standard input of the option runs: a terminal, or a pipe with one item
OptStdinChoices == {
    [tty |-> TRUE,  lines |-> <<>>],
    [tty |-> FALSE, lines |-> << <<"D">> >>] }

\* the runs over the request options, with and without a license key in the
\* environment
InitOpts ==
    /\ InitProgramAt("start")
    /\ args \in OptArgVectors \cup EnforceArgVectors
    /\ \E sc \in (IF IsEnforce(args) THEN { [tty |-> TRUE, lines |-> <<>>] }
                  ELSE OptStdinChoices) :
            isTTY = sc.tty /\ stdin = sc.lines
    /\ itemFile \in (IF Includes(args, F_FILE) THEN ItemFileEntries ELSE {Absent})
    /\ envToken \in (IF IsEnforce(args) THEN {undefined, <<"E">>} ELSE {undefined})
    /\ envKey \in {undefined, <<"S">>}
    /\ refined = undefined

SpecOpts == InitOpts /\ [][Next]_vars

\* a refined item with the given optional fields
FmtItem(u, r, a, t) ==
    [title |-> <<"T">>, problemStatement |-> <<"P">>, estimate |-> <<"S">>,
     priority |-> <<"P", "1">>, userStory |-> u, rationale |-> r,
     acceptanceCriteria |-> a, tags |-> t]

\* the refined items the formatter is run on: every optional field filled or
\* not, independently, and the fields empty where they were absent
FmtItems ==
    { FmtItem(u, r, a, t) :
        u \in {undefined, <<"U">>},
        r \in {<<>>, <<"R">>},
        a \in {undefined, << <<"c", "2">>, <<"c", "1">> >>},
        t \in {<<>>, << <<"t", "1">>, <<"t", "2">> >>} }
    \cup { FmtItem(<<>>, <<>>, <<>>, undefined),
           FmtItem(<<>>, <<"R">>, <<>>, << <<"t", "1">> >>) }

\* the formatter on its own, over every list of up to MaxItems items
InitFmt ==
    /\ InitProgramAt("print")
    /\ args = <<>> /\ isTTY = TRUE /\ stdin = <<>> /\ itemFile = Absent
    /\ envToken = undefined /\ envKey = undefined
    /\ \E its \in SeqsUpTo(FmtItems, MaxItems) :
            refined = [isArray |-> FALSE, hasItems |-> TRUE, items |-> its]

NextFmt == Format

SpecFmt == InitFmt /\ [][NextFmt]_vars

\* the context detection loop on its own, over every candidate file's entries
InitCtx ==
    /\ InitProgramAt("ctx_loop")
    /\ args = <<>> /\ isTTY = TRUE /\ stdin = <<>> /\ itemFile = Absent
    /\ envToken = undefined /\ envKey = undefined
    /\ refined = undefined

NextCtx == CtxVisit \/ CtxReturn

SpecCtx == InitCtx /\ [][NextCtx]_vars

-----------------------------------------------------------------------------
(* Claims *)

IsRefineRequest(r) == r.url = "/api/refine"
Last(q) == q[Len(q)]

\* the error messages written, the context diagnostic and the usage line apart
ErrorLines(err) ==
    SelectSeq(err, LAMBDA e : e.kind \notin {"AutoDetected", "EnforceUsage"})

\* C1: the string detectProjectContext returns is at most 700 characters long
C1_CombinedWithinBudget ==
    (pc = "ctx_done" /\ detected # undefined) => Len(detected) <= MAX_CHARS

\* C2: every item of the list handed to the refine request is a non-empty
\* string without leading or trailing whitespace, whatever its source
C2_ItemsTrimmedNonEmpty ==
    \A n \in 1..Len(requests) :
        IsRefineRequest(requests[n]) =>
            \A k \in 1..Len(requests[n].body.items) :
                LET it == requests[n].body.items[k] IN it # <<>> /\ Trim(it) = it

\* the flags whose value is the next argument
ValueFlags == {F_FORMAT, F_CONTEXT, F_C, F_KEY, F_K, F_FILE, F_F}

\* argument i is the value of the flag before it
RECURSIVE IsOptionValue(_, _)
IsOptionValue(a, i) ==
    i > 1 /\ a[i - 1] \in ValueFlags /\ ~IsOptionValue(a, i - 1)

\* the positional arguments, in command-line order
RECURSIVE PositionalsFrom(_, _)
PositionalsFrom(a, i) ==
    IF i > Len(a) THEN <<>>
    ELSE (IF ~IsOptionValue(a, i) /\ ~StartsWithDash(a[i]) THEN << a[i] >> ELSE <<>>)
         \o PositionalsFrom(a, i + 1)

\* the non-blank lines, trimmed, in order
NonBlank(ls) ==
    SelectSeq([k \in 1..Len(ls) |-> Trim(ls[k])], LAMBDA t : t # <<>>)

ExpectedItems ==
    PositionalsFrom(args, 1)
    \o (IF Truthy(filePath) THEN NonBlank(SplitLines(itemFile.content, <<>>)) ELSE <<>>)
    \o (IF isTTY THEN <<>> ELSE NonBlank(stdin))

\* C3: the items sent are the positional arguments, then the non-blank lines
\* of the --file file, then the non-blank lines of piped standard input, each
\* in order; standard input is read only when it is not a terminal, and then
\* to its end before any request is sent
C3_MergedOrder ==
    /\ \A n \in 1..Len(requests) :
          IsRefineRequest(requests[n]) =>
              /\ requests[n].body.items = ExpectedItems
              /\ ~isTTY => stdinPos = Len(stdin)
    /\ isTTY => stdinPos = 0 /\ lines = <<>>

C3_Witness ==
    /\ Len(requests) = 1
    /\ IsRefineRequest(requests[1])
    /\ ~isTTY
    /\ requests[1].body.items = << <<"A">>, <<"B">>, <<"C">>, <<"D">> >>

\* C4: a run whose input validation fails (refine: the --file path does not
\* exist, or the merged item list is empty; enforce: --issue or --repo is
\* missing) never sends a request, prints guidance and exits non-zero
C4_NoRequestOnInvalidInput ==
    LET parsedRefine == ~IsEnforce(args) /\ pc # "start"
        fileMissing == parsedRefine /\ Truthy(filePath) /\ ~itemFile.exists
        merged == parsedRefine /\ pc \notin {"file", "stdin"}
                  /\ ~WantsHelp(args) /\ ~WantsVersion(args)
        noItems == merged /\ items = <<>>
        noRequired == IsEnforce(args) /\ pc \notin {"start", "enforce"}
                      /\ (~Truthy(issueNumber) \/ ~Truthy(repo))
        refused == /\ requests = <<>>
                   /\ pc = "exit" => exitCode # 0 /\ ErrorLines(stderr) # <<>>
    IN /\ fileMissing => refused /\ pc \in {"file", "exit"}
       /\ noItems => refused /\ pc \in {"check", "exit"}
       /\ noRequired => refused /\ pc \in {"validate", "exit"}

C4_Witness ==
    /\ pc = "exit" /\ ~IsEnforce(args)
    /\ Truthy(filePath) /\ ~itemFile.exists
    /\ requests = <<>> /\ exitCode = 1

\* the body of the last response was handed to JSON.parse
BodyParsed ==
    /\ response # NoResponse /\ ~response.failed
    /\ IF IsEnforce(args) THEN response.status < 400
       ELSE response.status # 0 /\ response.status < 400

Malformed(data) == data \in {BadShort, BadLong}

\* C5: malformed JSON in any API response is reported as a response-format
\* error embedding at most the first 200 characters of the raw body, never as
\* the message of the parse exception
C5_MalformedJsonExcerpt ==
    (pc = "exit" /\ BodyParsed /\ Malformed(response.data)) =>
        /\ ErrorLines(stderr) # <<>>
        /\ Last(stderr).text = Slice(response.data, EXCERPT_CHARS)
        /\ Last(stderr).detail # SyntaxErrorMessage

\* C6: the refine response is mapped in order: 429 to the rate-limit error,
\* 402 to the too-many-items error, any other status >= 400 or a missing
\* status to the generic error embedding status and raw body, and only
\* otherwise is the body parsed; a failure is not followed by another request
C6_StatusMapping ==
    (~IsEnforce(args) /\ pc = "exit" /\ response # NoResponse) =>
        /\ Len(requests) = 1
        /\ ~response.failed =>
            LET st == response.status
                generic == st \notin {429, 402} /\ (st = 0 \/ st >= 400)
                mapped == {"RateLimit", "TooManyItems", "ApiError"}
            IN
            /\ st = 429 => exitCode # 0 /\ Last(stderr).kind = "RateLimit"
            /\ st = 402 => exitCode # 0 /\ Last(stderr).kind = "TooManyItems"
            /\ generic => /\ exitCode # 0
                          /\ Last(stderr).kind = "ApiError"
                          /\ Last(stderr).status = st
                          /\ Last(stderr).text = response.data
            /\ (st # 429 /\ st # 402 /\ ~generic) =>
                   \A k \in 1..Len(stderr) : stderr[k].kind \notin mapped
            /\ Malformed(response.data) => exitCode # 0

C6_Witness ==
    /\ ~IsEnforce(args) /\ pc = "exit"
    /\ response.status = 429
    /\ Last(stderr).kind = "RateLimit"

\* the lint response was parsed, so the threshold was compared
Compared ==
    /\ IsEnforce(args) /\ pc = "exit" /\ Len(requests) = 2
    /\ BodyParsed /\ ~Malformed(response.data)

\* the enforce flags whose value is the next argument
EnforceValueFlags == {F_ISSUE, F_REPO, F_MIN_SCORE, F_KEY, F_K, F_GITHUB_TOKEN}

\* argument i is the value of the enforce flag before it
RECURSIVE IsEnforceValue(_, _)
IsEnforceValue(a, i) ==
    i > 1 /\ a[i - 1] \in EnforceValueFlags /\ ~IsEnforceValue(a, i - 1)

\* --min-score is given, as a flag, with this value
GivenMinScore(v) ==
    \E k \in 1..(Len(args) - 1) :
        args[k] = F_MIN_SCORE /\ ~IsEnforceValue(args, k) /\ args[k + 1] = v

\* C7: in the enforce flow the run reports success and exits 0 exactly when
\* score >= threshold (--min-score, default 80), and otherwise reports
\* failure, exits 1 and lists every check whose pass flag is false, with its
\* message when it has one
C7_ThresholdDecides ==
    /\ (IsEnforce(args) /\ pc # "start" /\ pc # "enforce") =>
        /\ ~Includes(args, F_MIN_SCORE) => minScore = Number(80)
        /\ GivenMinScore(<<"5", "0">>) => minScore = Number(50)
        /\ GivenMinScore(<<"0">>) => minScore = Number(0)
    /\ (Compared /\ minScore # NaN) =>
        LET res == IssueResult(lintResult)
            expected == SelectSeq(Checks(res), LAMBDA c : c.pass = FALSE)
            listed == SelectSeq(stdout, LAMBDA e : e.kind = "MissingCheck")
        IN
        /\ exitCode = 0 <=> Score(res) >= minScore[1]
        /\ exitCode = 1 <=> Score(res) < minScore[1]
        /\ exitCode = 0 => stdout[1].kind = "LintPassed" /\ listed = <<>>
        /\ exitCode = 1 =>
            /\ stdout[1].kind = "LintFailed"
            /\ Len(listed) = Len(expected)
            /\ \A k \in 1..Len(expected) :
                  /\ listed[k].text = expected[k].name
                  /\ listed[k].detail =
                        (IF expected[k].message = undefined THEN <<>>
                         ELSE expected[k].message)

C7_Witness ==
    /\ Compared /\ minScore # NaN
    /\ Score(IssueResult(lintResult)) = minScore[1]
    /\ exitCode = 0
    /\ stdout[1].kind = "LintPassed"

\* C8: the enforce subcommand exits 0 when the score is met, 1 when it is
\* not, and 2 on an error (bad arguments, API failure, network failure)
C8_ErrorExitIsTwo ==
    (IsEnforce(args) /\ pc = "exit") =>
        /\ ErrorLines(stderr) # <<>> => exitCode = 2
        /\ ErrorLines(stderr) = <<>> => exitCode \in {0, 1}

C10_ErrorsOnlyOnDiagnosticStream ==
    pc = "exit" =>
        /\ ErrorLines(stderr) # <<>> =>
              stdout = <<>> /\ Len(ErrorLines(stderr)) = 1 /\ exitCode # 0
        /\ ErrorLines(stderr) = <<>> => stdout # <<>>

\* the refine run got past the validation of its input
RefineValidated ==
    /\ ~IsEnforce(args) /\ ~WantsHelp(args) /\ ~WantsVersion(args)
    /\ pc \notin {"start", "file", "stdin", "check"}
    /\ Truthy(filePath) => itemFile.exists
    /\ ExpectedItems # <<>>

\* the response just received is a successful, parsable answer to the issue fetch
IssueFetched(resp) ==
    /\ resp # NoResponse /\ ~resp.failed
    /\ resp.status # 404 /\ resp.status < 400
    /\ ~Malformed(resp.data)

\* a step that sends a request sends one, in its phase of the run
SendsInPhase ==
    requests' # requests =>
        /\ Len(requests') = Len(requests) + 1
        /\ SubSeq(requests', 1, Len(requests)) = requests
        /\ IF IsEnforce(args)
           THEN \/ /\ requests = <<>> /\ pc = "validate" /\ response = NoResponse
                   /\ Last(requests').method = "GET"
                   /\ Last(requests').url = "/repos/issues"
                \/ /\ Len(requests) = 1 /\ pc = "await_gh"
                   /\ IssueFetched(response')
                   /\ Last(requests').method = "POST"
                   /\ Last(requests').url = "/api/lint"
           ELSE /\ requests = <<>> /\ pc = "call" /\ response = NoResponse
                /\ IsRefineRequest(Last(requests'))

\* C11: an enforce run sends at most two requests, one after the other: the
\* scoring POST is sent only when the issue GET has ended with a non-error
\* status and a parsable body, and after a 404, another error status or a
\* transport failure none is sent; a refine run that passes validation sends
\* exactly one request and never a second one after a failure
C11_RequestsSequential ==
    /\ [](/\ Len(requests) <= (IF IsEnforce(args) THEN 2 ELSE 1)
          /\ (RefineValidated /\ pc \in {"await_refine", "exit"}) => Len(requests) = 1
          /\ (IsEnforce(args) /\ pc = "exit" /\ Len(requests) = 1) =>
                ~IssueFetched(response)
          /\ (pc = "exit" /\ exitCode # 0 /\ ~IsEnforce(args)) => Len(requests) <= 1)
    /\ [][SendsInPhase /\ (pc = "exit" => requests' = requests)]_vars

C11_Witness ==
    /\ IsEnforce(args) /\ pc = "await_lint"
    /\ Len(requests) = 2 /\ response.status = 200
    /\ requests[2].url = "/api/lint"

\* argument i is the value of the flag before it, in the flow that is run
IsFlagValue(i) ==
    IF IsEnforce(args) THEN IsEnforceValue(args, i) ELSE IsOptionValue(args, i)

\* the positions where the word is given as a flag
FlagPositions(flags) ==
    {k \in 1..Len(args) : args[k] \in flags /\ ~IsFlagValue(k)}

\* the value given with the last occurrence of the flag
FlagValue(flags) ==
    LET last == CHOOSE k \in FlagPositions(flags) :
                    \A j \in FlagPositions(flags) : j <= k
    IN NextArg(args, last)

\* the license key the user supplied: the flag's, else the environment's
SuppliedKey ==
    IF FlagPositions({F_KEY, F_K}) # {} THEN FlagValue({F_KEY, F_K}) ELSE envKey

IsApiRequest(r) == r.url \in {"/api/refine", "/api/lint"}

\* C12: the x-license-key header of an API request carries the key given with
\* --key/-k or, when the flag is absent, the key of the documented environment
\* variable, and is attached in no other case
C12_KeyFromFlagOrEnvironment ==
    \A n \in 1..Len(requests) :
        IsApiRequest(requests[n]) =>
            requests[n].licenseKey =
                (IF Truthy(SuppliedKey) THEN SuppliedKey ELSE undefined)

\* the context given with --context/-c, undefined when there is none
ExplicitContext ==
    IF FlagPositions({F_CONTEXT, F_C}) # {} THEN FlagValue({F_CONTEXT, F_C})
    ELSE undefined

\* neither --context/-c nor --no-auto-context is given
NeitherContextFlag ==
    FlagPositions({F_CONTEXT, F_C}) = {} /\ FlagPositions({F_NO_AUTO}) = {}

\* the context option of the request: the explicit one, or the detected one
ContextOption ==
    IF NeitherContextFlag /\ Truthy(detected) THEN detected ELSE ExplicitContext

\* C13: the body of the refine request always has the items, and has context,
\* useUserStories and useGherkin exactly when the option is present (a
\* non-empty context, a flag that is set), each with the option's value and
\* never as null or false; the x-license-key header is attached only when a
\* key was supplied
C13_BodyOmitsAbsentOptions ==
    \A n \in 1..Len(requests) :
        IsRefineRequest(requests[n]) =>
            LET body == requests[n].body IN
            /\ "items" \in body.keys /\ body.items = ExpectedItems
            /\ body.keys \subseteq {"items", "context", "useUserStories", "useGherkin"}
            /\ "context" \in body.keys <=> Truthy(ContextOption)
            /\ "context" \in body.keys => body.context = ContextOption
            /\ "useUserStories" \in body.keys <=> FlagPositions({F_USER_STORIES}) # {}
            /\ "useUserStories" \in body.keys => body.useUserStories = TRUE
            /\ "useGherkin" \in body.keys <=> FlagPositions({F_GHERKIN}) # {}
            /\ "useGherkin" \in body.keys => body.useGherkin = TRUE
            /\ requests[n].licenseKey # undefined =>
                  /\ FlagPositions({F_KEY, F_K}) # {}
                  /\ requests[n].licenseKey = FlagValue({F_KEY, F_K})
                  /\ requests[n].licenseKey # <<>>

C13_Witness ==
    /\ Len(requests) = 1 /\ IsRefineRequest(requests[1])
    /\ contextExplicitlyProvided /\ context = <<>>
    /\ requests[1].body.keys = {"items", "useGherkin"}
    /\ requests[1].licenseKey = undefined

\* detectProjectContext has left no trace: nothing collected, nothing logged
NoDetectionTrace ==
    /\ collected = <<>> /\ usedSources = <<>> /\ totalChars = 0
    /\ detected = undefined
    /\ \A k \in 1..Len(stderr) : stderr[k].kind # "AutoDetected"

\* the context field of a request body, undefined when the key is absent
SentContext(r) == IF "context" \in r.body.keys THEN r.body.context ELSE undefined

\* C14: when --context/-c or --no-auto-context is passed, detectProjectContext
\* is never run and the context sent is exactly the one given with --context
\* (none when there is none); a detected context is sent only when neither
\* flag is present
C14_ExplicitContextOverrides ==
    /\ [](~IsEnforce(args) =>
            /\ ~NeitherContextFlag => NoDetectionTrace
            /\ \A n \in 1..Len(requests) :
                  /\ ~NeitherContextFlag =>
                        SentContext(requests[n]) =
                            (IF Truthy(ExplicitContext) THEN ExplicitContext
                             ELSE undefined)
                  /\ NeitherContextFlag =>
                        SentContext(requests[n]) =
                            (IF Truthy(detected) THEN detected ELSE undefined))
    /\ [][~NeitherContextFlag => ~AutoDetect]_vars

C14_Witness ==
    /\ Len(requests) = 1 /\ IsRefineRequest(requests[1])
    /\ FlagPositions({F_NO_AUTO}) = {}
    /\ ExplicitContext = ITEM_A
    /\ requests[1].body.context = ITEM_A
    /\ NoDetectionTrace

\* s.startsWith(p)
StartsWith(s, p) == Len(s) >= Len(p) /\ SubSeq(s, 1, Len(p)) = p

RULE_LINE == <<"-", "-", "-">>

\* the lines of a text: the pieces between its newlines
OutputLines(s) ==
    LET nl == {i \in 1..Len(s) : s[i] = "\n"}
        pos(k) == CHOOSE i \in nl : Cardinality({j \in nl : j < i}) = k - 1
        last == Cardinality(nl) + 1
    IN [k \in 1..last |->
          SubSeq(s, IF k = 1 THEN 1 ELSE pos(k - 1) + 1,
                    IF k = last THEN Len(s) ELSE pos(k) - 1)]

\* the lines cut into blocks at the horizontal rules
RECURSIVE Blocks(_, _)
Blocks(ls, cur) ==
    IF ls = <<>> THEN <<cur>>
    ELSE IF Head(ls) = RULE_LINE THEN <<cur>> \o Blocks(Tail(ls), <<>>)
    ELSE Blocks(Tail(ls), Append(cur, Head(ls)))

\* the lines of a block that begin with the label
Labelled(block, label) == SelectSeq(block, LAMBDA l : StartsWith(l, label))

\* the list, or no list when the field is absent
ListOf(xs) == IF xs = undefined THEN <<>> ELSE xs

\* the block is the rendering of the item: each optional section is there
\* exactly when its field is present and non-empty
BlockShows(block, item) ==
    /\ Labelled(block, MD_H2) = << MD_H2 \o item.title >>
    /\ Labelled(block, Tail(MD_QUOTE)) =
          (IF Truthy(item.userStory) THEN << Tail(MD_QUOTE) \o item.userStory >>
           ELSE <<>>)
    /\ Labelled(block, MD_RATIONALE) =
          (IF Truthy(item.rationale) THEN << MD_RATIONALE \o item.rationale >>
           ELSE <<>>)
    /\ Len(Labelled(block, Tail(MD_AC))) =
          (IF ListOf(item.acceptanceCriteria) # <<>> THEN 1 ELSE 0)
    /\ Labelled(block, MD_BULLET) =
          [k \in 1..Len(ListOf(item.acceptanceCriteria)) |->
              MD_BULLET \o item.acceptanceCriteria[k]]
    /\ Labelled(block, Tail(MD_TAGS)) =
          (IF ListOf(item.tags) # <<>>
           THEN << Tail(MD_TAGS) \o Join(item.tags, COMMA) >> ELSE <<>>)

\* C15: in the markdown printed for a list of n >= 1 items, the user-story,
\* rationale, acceptance-criteria and tags sections of each item appear exactly
\* when the field is present and non-empty, the acceptance criteria are one
\* bullet each in the given order, and there are exactly n-1 horizontal
\* rules, one between each two consecutive items in input order
C15_MarkdownSections ==
    (pc = "exit" /\ stdout # <<>> /\ Last(stdout).kind = "Markdown"
        /\ refined.items # <<>>) =>
        LET ls == OutputLines(Last(stdout).text)
            blocks == Blocks(ls, <<>>)
            n == Len(refined.items)
        IN /\ Len(SelectSeq(ls, LAMBDA l : l = RULE_LINE)) = n - 1
           /\ Len(blocks) = n
           /\ \A k \in 1..n : BlockShows(blocks[k], refined.items[k])
           /\ Last(stdout).text = formatMarkdown(refined.items)

C15_Witness ==
    /\ pc = "exit" /\ Len(stdout) = 1 /\ stdout[1].kind = "Markdown"
    /\ Len(refined.items) = 2
    /\ Truthy(refined.items[1].userStory) /\ refined.items[1].rationale = <<"R">>
    /\ HasLength(refined.items[1].acceptanceCriteria)
    /\ refined.items[2] = FmtItem(<<>>, <<>>, <<>>, undefined)

\* the place of a file in the candidate list
SourceIndex(f) == CHOOSE k \in 1..Len(sources) : sources[k].file = f

\* the file is absent, unreadable, empty after trimming, or not parsable
Skipped(src, e) ==
    \/ ~e.exists
    \/ ~e.readable
    \/ Trim(e.content) = <<>>
    \/ src.extractor = "package" /\ ~JSONparse(PkgDocs, Trim(e.content)).ok

\* the text the extractor gives for the file, trimmed; empty for a skipped file
Extracted(src, e) ==
    IF Skipped(src, e) THEN <<>>
    ELSE Trim(Extract(src.extractor, Trim(e.content)))

\* the step visits the candidate at srcIdx
IsVisit == srcIdx' = srcIdx + 1

\* what the visit of a candidate does to the chunks and the used sources
VisitInOrder ==
    IsVisit =>
        LET src == sources[srcIdx]
            e == dirEntry'
        IN /\ pc' = pc
           /\ Skipped(src, e) => collected' = collected /\ usedSources' = usedSources
           /\ collected' # collected =>
                /\ Len(collected') = Len(collected) + 1
                /\ SubSeq(collected', 1, Len(collected)) = collected
                /\ usedSources' = Append(usedSources, src.file)
                /\ Last(collected') # <<>>
                /\ StartsWith(Extracted(src, e), Last(collected'))
           /\ usedSources' # usedSources => collected' # collected

\* C16: the chunks of the detected context are in the priority order of the
\* candidate list: the used sources are a subsequence of the list, chunk i is
\* taken from used source i, and an absent, unreadable, unparsable or blank
\* file adds no chunk and does not stop the detection of the later files
C16_ChunksInPriorityOrder ==
    /\ [](/\ Len(collected) = Len(usedSources)
          /\ \A i \in 1..Len(usedSources) :
                /\ \E k \in 1..Len(sources) : sources[k].file = usedSources[i]
                /\ SourceIndex(usedSources[i]) < srcIdx
                /\ \A j \in (i + 1)..Len(usedSources) :
                      SourceIndex(usedSources[i]) < SourceIndex(usedSources[j])
          /\ pc = "ctx_done" =>
                /\ srcIdx > Len(sources) \/ totalChars >= 700
                /\ detected = (IF collected = <<>> THEN undefined
                               ELSE Join(collected, SEP)))
    /\ [][VisitInOrder]_vars

C16_Witness ==
    /\ pc = "ctx_done"
    /\ usedSources = <<"CLAUDE.md", "package.json">>
    /\ Len(collected) = 2
    /\ srcIdx = Len(sources) + 1

RECURSIVE SumLen(_)
SumLen(chunks) == IF chunks = <<>> THEN 0 ELSE Len(Head(chunks)) + SumLen(Tail(chunks))

\* the visit of a candidate takes the extracted text cut to the budget left
VisitWithinBudget ==
    /\ totalChars >= 700 =>
          collected' = collected /\ usedSources' = usedSources
          /\ totalChars' = totalChars
    /\ IsVisit =>
        LET src == sources[srcIdx]
            x == Extracted(src, dirEntry')
            chunk == Slice(x, 700 - totalChars)
        IN IF x = <<>>
           THEN /\ collected' = collected /\ usedSources' = usedSources
                /\ totalChars' = totalChars
           ELSE /\ collected' = Append(collected, chunk)
                /\ usedSources' = Append(usedSources, src.file)
                /\ totalChars' = totalChars + Len(chunk)

\* C17: at every step of the detection loop the total of the chunk lengths is
\* at most 700: an accepted chunk is the file's extracted text cut to the
\* budget left, nothing is taken once the total is 700, and the used sources
\* are exactly the files that gave a non-empty chunk
C17_RunningTotalWithinBudget ==
    /\ [](/\ totalChars <= 700
          /\ totalChars = SumLen(collected)
          /\ Len(usedSources) = Len(collected)
          /\ \A i \in 1..Len(collected) : collected[i] # <<>>)
    /\ [][VisitWithinBudget]_vars

C17_Witness ==
    /\ pc = "ctx_loop" /\ srcIdx <= Len(sources)
    /\ totalChars = 700
    /\ Len(collected) = 3 /\ Len(collected[3]) = 100

\* the object the scoring response is read from: the first element of its
\* issues list when it has one, the response itself otherwise
Scored ==
    IF lintResult.hasIssues /\ lintResult.issues # <<>> THEN lintResult.issues[1]
    ELSE lintResult.flat

\* C18: the scoring response is read from the first element of its issues
\* list when there is one and from the flat object otherwise; a missing score
\* counts as 0, a missing ready flag as false, a missing check map as empty,
\* the identifier is optional; a response without a score fails every
\* threshold greater than 0
C18_ResponseNormalized ==
    Compared =>
        LET r == Scored
            score == IF r.completeness_score = <<>> THEN 0 ELSE r.completeness_score[1]
            ready == IF r.agent_ready = <<>> THEN FALSE ELSE r.agent_ready[1]
            checks == IF r.checks = <<>> THEN <<>> ELSE r.checks[1]
            failing == SelectSeq(checks, LAMBDA c : c.pass = FALSE)
            listed == SelectSeq(stdout, LAMBDA e : e.kind = "MissingCheck")
        IN /\ stdout[1].kind \in {"LintPassed", "LintFailed"}
           /\ stdout[1].status = score
           /\ stdout[1].text = (IF r.lint_id = undefined THEN <<>> ELSE r.lint_id)
           /\ stdout[1].kind = "LintPassed" =>
                 stdout[1].detail = (IF ready THEN <<"true">> ELSE <<"false">>)
           /\ stdout[1].kind = "LintFailed" =>
                 [k \in 1..Len(listed) |-> listed[k].text] =
                 [k \in 1..Len(failing) |-> failing[k].name]
           /\ (r.completeness_score = <<>> /\ minScore # NaN /\ minScore[1] > 0) =>
                 exitCode = 1 /\ stdout[1].kind = "LintFailed"

C18_Witness ==
    /\ Compared
    /\ lintResult.hasIssues /\ Len(lintResult.issues) = 1
    /\ lintResult.flat.completeness_score = <<100>>
    /\ stdout[1].status = 50
    /\ minScore = Number(50) /\ exitCode = 0

====
